---- MODULE Spec2Model ----
(***************************************************************************)
(* A model of matsim's compute engine (atsim/analysis/compute_funcs.py)    *)
(* and of the bounding-box routine of geometry.py.                         *)
(*                                                                         *)
(* Python dicts are functions from key strings to values.  None is the     *)
(* empty tuple, an integer n held where None may also be held is <<n>>.    *)
(* The module-level PREDEFINED_VARS dicts are shared mutable objects: a    *)
(* list returned by get_depends holds references to them, so an element of *)
(* such a list is a cell that is either a reference into PREDEFINED_VARS   *)
(* (ref # "") or a dict owned by that list alone (ref = "").               *)
(***************************************************************************)
EXTENDS Integers, Sequences, FiniteSets, TLC

VARIABLES
    pv,       \* PREDEFINED_VARS: key -> dict (module-level, mutated in place)
    kept,     \* an earlier get_depends call and the list it returned
    cur,      \* the latest get_depends call and the list it returned
    nwrites,  \* number of values appended to vals so far
    sims,     \* the batch: per simulation, what the computes read of it
    args,     \* the parameters of the multi-simulation computes
    vars,     \* out['variables']: id of a definition -> its vals
    call,     \* a call of a function on one simulation or one box: its inputs
    ret,      \* what that call came to: a value returned or an exception
    phase     \* the next multi-simulation compute to run, or the outcome

resolverVars == <<pv, kept, cur, nwrites>>
batchVars == <<sims, args, vars, phase>>
callVars == <<call, ret>>
allVars == <<pv, kept, cur, nwrites, sims, args, vars, phase, call, ret>>

----------------------------------------------------------------------------
(* Bounds of the model *)

MaxWrites == 1
NumSims == 3
NumSteps == 2
MaxCoord == 2
NumFitSims == 5

----------------------------------------------------------------------------
(* Python values *)

None == <<>>
Some(n) == <<n>>

EmptyDict == <<>>
HasKey(d, k) == k \in DOMAIN d
DictSet(d, k, v) == (k :> v) @@ d
DictDel(d, k) == [x \in DOMAIN d \ {k} |-> d[x]]
\* Keys whose value may be None; every other key holds a string, and vals,
\* when present, holds a list.
NullableKeys == {"opt_step"}
\* d.get(k) is None
GetIsNone(d, k) == ~HasKey(d, k) \/ (k \in NullableKeys /\ d[k] = None)

----------------------------------------------------------------------------
(* compute_funcs.py: module data *)

PREDEFINED_VARS ==
    [gb_area |-> [type |-> "compute", name |-> "gb_area", id |-> "gb_area"],
     gb_boundary_vac |-> [type |-> "compute", name |-> "gb_boundary_vac",
                          id |-> "gb_boundary_vac"],
     sup_type |-> [type |-> "compute", name |-> "supercell_type",
                   id |-> "supercell_type"],
     gb_dist_initial |-> [type |-> "compute", name |-> "atoms_gb_dist_initial",
                          id |-> "atoms_gb_dist_initial"],
     gb_dist_final |-> [type |-> "compute", name |-> "atoms_gb_dist_final",
                        id |-> "atoms_gb_dist_final"],
     gb_dist_change |-> [type |-> "compute", name |-> "atoms_gb_dist_change",
                         id |-> "atoms_gb_dist_change"]]

SINGLE_COMPUTE_LOOKUP ==
    {"num_atoms", "energy", "energy_per_atom", "gb_area", "supercell_type",
     "gb_thickness", "gb_boundary_vac", "atoms_gb_dist_initial",
     "atoms_gb_dist_final", "atoms_gb_dist_change"}

MULTI_COMPUTE_LOOKUP == {"gb_energy", "gamma_surface_info", "master_gamma"}

\* The info_name of the seven gamma_surface_info definitions master_gamma
\* depends on, in the order get_depends requests them.
MASTER_INFO_NAMES ==
    <<"row_idx", "col_idx", "x_std_vals", "y_std_vals", "x_frac_vals",
      "y_frac_vals", "grid_shape">>

----------------------------------------------------------------------------
(* Cells of a returned list *)

OwnCell(d) == [ref |-> "", d |-> d]
PreCell(key) == [ref |-> key, d |-> EmptyDict]

\* The dict a cell denotes, given the current PREDEFINED_VARS.
Deref(cell, p) == IF cell.ref = "" THEN cell.d ELSE p[cell.ref]

DerefList(lst, p) == [i \in 1..Len(lst) |-> Deref(lst[i], p)]

\* A dict without its vals key.
NonVals(d) == DictDel(d, "vals")

----------------------------------------------------------------------------
(* atsim.utils.dict_from_list: the first dict of lst that holds every key  *)
(* of conditions with an equal, non-None value; 0 stands for None and i    *)
(* for the element lst[i].                                                 *)

DictMatches(el, conditions) ==
    \A k \in DOMAIN conditions :
        ~GetIsNone(el, k) /\ el[k] = conditions[k]

dict_from_list(lst, conditions) ==
    LET hits == {i \in 1..Len(lst) : DictMatches(lst[i], conditions)}
    IN  IF hits = {} THEN 0 ELSE CHOOSE i \in hits : \A j \in hits : i <= j

----------------------------------------------------------------------------
(* get_depends *)

\* Mutant: the validation lets a name through that no registry holds.
allowed_computes_lax ==
    SINGLE_COMPUTE_LOOKUP \cup MULTI_COMPUTE_LOOKUP \cup {"gb_width"}

allowed_computes == SINGLE_COMPUTE_LOOKUP \cup MULTI_COMPUTE_LOOKUP

\* d = {'type': 'compute', 'name': compute_name} and, with inc_id, the id.
BaseDefn(compute_name, inc_id) ==
    LET d == [type |-> "compute", name |-> compute_name]
    IN  IF inc_id THEN DictSet(d, "id", compute_name) ELSE d

\* The synthetic series-index definitions of gamma_surface_info.
SeriesIdDefn(nm, inc_id) ==
    LET d == [name |-> nm, type |-> "series_id", col_id |-> "relative_shift"]
    IN  IF inc_id THEN DictSet(d, "id", nm) ELSE d

\* Mutant: del out[v_idx] in place of del out[v_idx]['vals'].
RECURSIVE ValsLoopDelElement(_, _, _, _)
ValsLoopDelElement(out, p, inc_val, v_idx) ==
    IF v_idx > Len(out) THEN [out |-> out, pv |-> p]
    ELSE LET cell == out[v_idx]
             v == Deref(cell, p)
         IN  IF ~HasKey(v, "vals") /\ inc_val
             THEN LET nv == DictSet(v, "vals", <<>>)
                  IN  IF cell.ref = ""
                      THEN ValsLoopDelElement(
                               [out EXCEPT ![v_idx] = OwnCell(nv)], p,
                               inc_val, v_idx + 1)
                      ELSE ValsLoopDelElement(
                               out, [p EXCEPT ![cell.ref] = nv],
                               inc_val, v_idx + 1)
             ELSE IF HasKey(v, "vals") /\ ~inc_val
             THEN ValsLoopDelElement(
                      [i \in 1..(Len(out) - 1) |->
                          IF i < v_idx THEN out[i] ELSE out[i + 1]],
                      p, inc_val, v_idx + 1)
             ELSE ValsLoopDelElement(out, p, inc_val, v_idx + 1)

\* The loop that closes get_depends: vals is added to every dict that has
\* none when inc_val, and deleted from every dict that has one when not.
\* The dicts are updated in place, those of PREDEFINED_VARS included.
RECURSIVE ValsLoop(_, _, _, _)
ValsLoop(out, p, inc_val, v_idx) ==
    IF v_idx > Len(out) THEN [out |-> out, pv |-> p]
    ELSE LET cell == out[v_idx]
             v == Deref(cell, p)
             nv == IF ~HasKey(v, "vals") /\ inc_val
                      THEN DictSet(v, "vals", <<>>)
                   ELSE IF HasKey(v, "vals") /\ ~inc_val
                      THEN DictDel(v, "vals")
                   ELSE v
         IN  IF cell.ref = ""
             THEN ValsLoop([out EXCEPT ![v_idx] = OwnCell(nv)], p,
                           inc_val, v_idx + 1)
             ELSE ValsLoop(out, [p EXCEPT ![cell.ref] = nv],
                           inc_val, v_idx + 1)

\* Lines 196-208: append d unless dict_from_list finds it, then the vals loop.
Finish(out, d, p, inc_val) ==
    LET d_out == dict_from_list(DerefList(out, p), d)
        out2 == IF d_out = 0 THEN Append(out, OwnCell(d)) ELSE out
        r == ValsLoop(out2, p, inc_val, 1)
    IN  [err |-> FALSE, out |-> r.out, pv |-> r.pv]

\* get_depends(compute_name, inc_id, inc_val, **kwargs) called while
\* PREDEFINED_VARS is p.  The result is [err, out, pv]: whether ValueError
\* was raised, the returned list, and PREDEFINED_VARS after the call.
RECURSIVE get_depends(_, _, _, _, _)
RECURSIVE MasterInfoDepends(_, _, _, _)

\* The nested get_depends('gamma_surface_info', info_name=...) calls of the
\* master_gamma branch, from the i-th on, concatenated.  They are made with
\* the keyword inv_val, which lands in kwargs: inc_val keeps its default.
MasterInfoDepends(i, inc_id, kwargs, p) ==
    IF i > Len(MASTER_INFO_NAMES) THEN [out |-> <<>>, pv |-> p]
    ELSE LET g == get_depends("gamma_surface_info", inc_id, TRUE,
                              [kwargs EXCEPT !.info_name = MASTER_INFO_NAMES[i]],
                              p)
             rest == MasterInfoDepends(i + 1, inc_id, kwargs, g.pv)
         IN  [out |-> g.out \o rest.out, pv |-> rest.pv]

\* The parameters gb_energy and master_gamma add to their definition.
GbParams(kwargs) ==
    [energy_src |-> kwargs.energy_src, opt_step |-> kwargs.opt_step,
     series_id |-> kwargs.series_id, unit |-> kwargs.unit]

\* The branches of get_depends: each gives the definition d of the compute
\* and the list of its prerequisites, and ends in the common tail.

\* Mutant: the two nested calls in the order of the energy_per_atom branch.
DependsGbEnergySwapped(inc_id, inc_val, kwargs, p) ==
    LET d == GbParams(kwargs) @@ BaseDefn("gb_energy", inc_id)
        n == get_depends("num_atoms", inc_id, inc_val, kwargs, p)
        e == get_depends("energy", inc_id, inc_val, kwargs, n.pv)
        out == n.out \o e.out \o <<PreCell("gb_area"), PreCell("sup_type")>>
    IN  Finish(out, d, e.pv, inc_val)

DependsGbEnergy(inc_id, inc_val, kwargs, p) ==
    LET d == GbParams(kwargs) @@ BaseDefn("gb_energy", inc_id)
        e == get_depends("energy", inc_id, inc_val, kwargs, p)
        n == get_depends("num_atoms", inc_id, inc_val, kwargs, e.pv)
        out == e.out \o n.out \o <<PreCell("gb_area"), PreCell("sup_type")>>
    IN  Finish(out, d, n.pv, inc_val)

DependsEnergyPerAtom(inc_id, inc_val, kwargs, p) ==
    LET d == [energy_src |-> kwargs.energy_src,
              opt_step |-> kwargs.opt_step]
               @@ BaseDefn("energy_per_atom", inc_id)
        n == get_depends("num_atoms", inc_id, inc_val, kwargs, p)
        e == get_depends("energy", inc_id, inc_val, kwargs, n.pv)
    IN  Finish(n.out \o e.out, d, e.pv, inc_val)

DependsGammaSurfaceInfo(inc_id, inc_val, kwargs, p) ==
    LET d == DictSet(BaseDefn("gamma_surface_info", inc_id),
                     "info_name", kwargs.info_name)
        add_out == <<OwnCell(SeriesIdDefn("csi_idx", inc_id)),
                     OwnCell(SeriesIdDefn("grid_idx", inc_id)),
                     OwnCell(SeriesIdDefn("point_idx", inc_id))>>
    IN  Finish(add_out, d, p, inc_val)

\* The nested calls pass inv_val, not inc_val: they run with inc_val=True.
DependsMasterGamma(inc_id, inc_val, kwargs, p) ==
    LET d == GbParams(kwargs) @@ BaseDefn("master_gamma", inc_id)
        g == get_depends("gb_energy", inc_id, TRUE, kwargs, p)
        infos == MasterInfoDepends(1, inc_id, kwargs, g.pv)
        out == g.out \o infos.out \o <<PreCell("gb_boundary_vac")>>
    IN  Finish(out, d, infos.pv, inc_val)

DependsEnergy(inc_id, inc_val, kwargs, p) ==
    LET d1 == DictSet(BaseDefn("energy", inc_id),
                      "energy_src", kwargs.energy_src)
        d == IF kwargs.opt_step # None
             THEN DictSet(d1, "opt_step", kwargs.opt_step) ELSE d1
    IN  Finish(<<>>, d, p, inc_val)

DependsAtomsGbDistChange(inc_id, inc_val, kwargs, p) ==
    Finish(<<PreCell("gb_dist_initial"), PreCell("gb_dist_final"),
             PreCell("sup_type")>>,
           BaseDefn("atoms_gb_dist_change", inc_id), p, inc_val)

get_depends(compute_name, inc_id, inc_val, kwargs, p) ==
    IF compute_name \notin allowed_computes
    THEN [err |-> TRUE, out |-> <<>>, pv |-> p]
    ELSE CASE compute_name = "gb_energy" ->
                DependsGbEnergy(inc_id, inc_val, kwargs, p)
           [] compute_name = "energy_per_atom" ->
                DependsEnergyPerAtom(inc_id, inc_val, kwargs, p)
           [] compute_name = "gamma_surface_info" ->
                DependsGammaSurfaceInfo(inc_id, inc_val, kwargs, p)
           [] compute_name = "master_gamma" ->
                DependsMasterGamma(inc_id, inc_val, kwargs, p)
           [] compute_name = "energy" ->
                DependsEnergy(inc_id, inc_val, kwargs, p)
           [] compute_name = "atoms_gb_dist_change" ->
                DependsAtomsGbDistChange(inc_id, inc_val, kwargs, p)
           [] OTHER ->
                Finish(<<>>, BaseDefn(compute_name, inc_id), p, inc_val)

----------------------------------------------------------------------------
(* The resolver as a state machine: get_depends is called again and again  *)
(* in one process, and values are appended to the vals of the definitions  *)
(* it handed out.  Two returned lists are held: the latest and an earlier  *)
(* one.                                                                    *)

NoKwargs ==
    [energy_src |-> "", opt_step |-> None, series_id |-> <<>>, unit |-> "",
     info_name |-> ""]

\* The keyword arguments a call of compute_name is made with.
KwargsOf(compute_name) ==
    IF compute_name = "energy"
    THEN {[NoKwargs EXCEPT !.energy_src = s, !.opt_step = o] :
              s \in {"final_energy"}, o \in {None, Some(0)}}
    ELSE IF compute_name = "energy_per_atom"
    THEN {[NoKwargs EXCEPT !.energy_src = s, !.opt_step = Some(0)] :
              s \in {"final_energy"}}
    ELSE IF compute_name = "gb_energy"
    THEN {[NoKwargs EXCEPT !.energy_src = s, !.opt_step = o,
                           !.series_id = <<"gb_size">>, !.unit = "J/m^2"] :
              s \in {"final_energy"}, o \in {None, Some(0)}}
    ELSE IF compute_name = "master_gamma"
    THEN {[NoKwargs EXCEPT !.energy_src = s, !.opt_step = None,
                           !.series_id = <<"gb_size">>, !.unit = "J/m^2"] :
              s \in {"final_energy"}}
    ELSE IF compute_name = "gamma_surface_info"
    THEN {[NoKwargs EXCEPT !.info_name = i] : i \in {"row_idx"}}
    ELSE {NoKwargs}

\* The computes requested: one of each shape of dependency list, and a
\* name that is in neither registry.
\* (inc_id, inc_val) is as the callers set them: the defaults for every
\* name, and False/False as energy_per_atom and atoms_gb_dist_change call
\* get_depends for themselves.
Requests ==
    UNION {{[name |-> n, inc_id |-> f, inc_val |-> f, kwargs |-> k] :
               f \in IF n \in {"energy_per_atom", "atoms_gb_dist_change"}
                     THEN {TRUE, FALSE} ELSE {TRUE},
               k \in KwargsOf(n)} :
           n \in {"energy", "energy_per_atom", "gb_area",
                  "atoms_gb_dist_change", "gb_energy", "gamma_surface_info",
                  "master_gamma", "gb_width"}}

NoCall ==
    [made |-> FALSE,
     req |-> [name |-> "", inc_id |-> TRUE, inc_val |-> TRUE,
              kwargs |-> NoKwargs],
     err |-> FALSE, out |-> <<>>]

ResolverInit ==
    /\ pv = PREDEFINED_VARS
    /\ kept = NoCall
    /\ cur = NoCall
    /\ nwrites = 0

\* One call of get_depends.  A list returned with inc_val=True is one the
\* caller may go on holding, to fill its vals (it becomes kept); any other
\* is dropped when the next call is made.
Resolve(req) ==
    LET r == get_depends(req.name, req.inc_id, req.inc_val, req.kwargs, pv)
    IN  /\ cur' = [made |-> TRUE, req |-> req, err |-> r.err, out |-> r.out]
        /\ pv' = r.pv
        /\ kept' \in {kept} \cup
                      (IF cur.made /\ ~cur.err /\ cur.req.inc_val
                       THEN {cur} ELSE {})
        /\ UNCHANGED nwrites

\* The evaluator appends one simulation's value to the vals of every
\* definition of a list it holds (the value is stamped with the number of
\* the write).  A dict of PREDEFINED_VARS is updated in place.
RECURSIVE AppendAll(_, _, _, _)
AppendAll(out, p, val, i) ==
    IF i > Len(out) THEN [out |-> out, pv |-> p]
    ELSE LET cell == out[i]
             v == Deref(cell, p)
         IN  IF ~HasKey(v, "vals") THEN AppendAll(out, p, val, i + 1)
             ELSE LET nv == [v EXCEPT !["vals"] = Append(@, val)]
                  IN  IF cell.ref = ""
                      THEN AppendAll([out EXCEPT ![i] = OwnCell(nv)], p,
                                     val, i + 1)
                      ELSE AppendAll(out, [p EXCEPT ![cell.ref] = nv],
                                     val, i + 1)

EvaluateSim(which) ==
    /\ nwrites < MaxWrites
    /\ LET held == IF which = "cur" THEN cur ELSE kept
           r == AppendAll(held.out, pv, nwrites + 1, 1)
       IN  /\ held.made /\ held.out # <<>>
           /\ pv' = r.pv
           /\ IF which = "cur"
              THEN cur' = [cur EXCEPT !.out = r.out] /\ UNCHANGED kept
              ELSE kept' = [kept EXCEPT !.out = r.out] /\ UNCHANGED cur
    /\ nwrites' = nwrites + 1

ResolverNext ==
    \/ \E req \in Requests :
          Resolve(req) /\ UNCHANGED <<sims, args, vars, phase, call, ret>>
    \/ \E which \in {"kept", "cur"} :
          EvaluateSim(which) /\ UNCHANGED <<sims, args, vars, phase, call, ret>>

----------------------------------------------------------------------------
(* Numbers.  A float is an exact fraction <<n, d>> in lowest terms with    *)
(* d > 0; not-a-number is <<0, 0>>.                                        *)

Abs(x) == IF x < 0 THEN -x ELSE x

RECURSIVE GCD(_, _)
GCD(a, b) == IF b = 0 THEN a ELSE GCD(b, a % b)

RatNorm(n, d) ==
    LET g == GCD(Abs(n), Abs(d))
        sgn == IF d < 0 THEN -1 ELSE 1
    IN  <<(sgn * n) \div g, (sgn * d) \div g>>

Rat(n) == <<n, 1>>
RatMul(a, b) == RatNorm(a[1] * b[1], a[2] * b[2])
RatDiv(a, b) == RatNorm(a[1] * b[2], a[2] * b[1])
RatSub(a, b) == RatNorm(a[1] * b[2] - b[1] * a[2], a[2] * b[2])

NaN == <<0, 0>>

\* 16.02176565 = 1602176565 / 100000000 = 320435313 / 20000000
GB_UNIT_FACTOR_NUM == 320435313
GB_UNIT_FACTOR_DEN == 20000000

----------------------------------------------------------------------------
(* A batch of simulations.  A simulation is a record of what the computes  *)
(* read of it:                                                             *)
(*   sup_type, num_atoms, boundary_area, boundary_vac  (sim.structure)     *)
(*   energy             (sim.results[energy_src], at opt_step)             *)
(*   series             (its value of the declared series 'gb_size')       *)
(*   sesh, csi_idx, grid_idx, point_idx   (its session and its indices     *)
(*                       into the common series info)                      *)

is_bicrystal(sim) == sim.sup_type = "bicrystal"

supercell_type(sim) == sim.sup_type

num_atoms(sim) == sim.num_atoms

gb_area(sim) == IF is_bicrystal(sim) THEN Some(sim.boundary_area) ELSE None

gb_boundary_vac(sim) ==
    IF is_bicrystal(sim) THEN Some(sim.boundary_vac) ELSE None

\* vals as a list, as a mapping (the bundle master_gamma writes), and the
\* empty list get_depends gives a definition.
ListVals(items) == [kind |-> "list", items |-> items]
EmptyVals == ListVals(<<>>)

\* The names of the series declared for the batch: out['series_name'].
series_name == <<"gb_size">>

\* out['variables'] as the list of definitions dict_from_list searches.
\* The gamma_surface_info definitions all have the id 'gamma_surface_info':
\* vars holds each under its info_name.
ALL_GAMMA_INFOS ==
    <<"row_idx", "col_idx", "x_std_vals", "y_std_vals", "x_frac_vals",
      "y_frac_vals", "x_num_den_vals", "y_num_den_vals", "grid_shape">>

IsGammaInfo(nm) == \E k \in 1..Len(ALL_GAMMA_INFOS) : ALL_GAMMA_INFOS[k] = nm

VarIds ==
    <<"energy", "num_atoms", "gb_area", "supercell_type", "gb_energy",
      "csi_idx", "grid_idx", "point_idx">> \o ALL_GAMMA_INFOS \o
    <<"gb_boundary_vac", "master_gamma">>

Variables(vs) ==
    [k \in 1..Len(VarIds) |->
        IF IsGammaInfo(VarIds[k])
        THEN [id |-> "gamma_surface_info", info_name |-> VarIds[k],
              vals |-> vs[VarIds[k]]]
        ELSE [id |-> VarIds[k], vals |-> vs[VarIds[k]]]]

\* The vals the single-simulation computes have given their definitions
\* when the multi-simulation computes run, one value per simulation.
SingleVals(ss) ==
    [id \in {VarIds[k] : k \in 1..Len(VarIds)} |->
        CASE id = "energy" ->
               ListVals([i \in 1..Len(ss) |-> ss[i].energy])
          [] id = "num_atoms" ->
               ListVals([i \in 1..Len(ss) |-> num_atoms(ss[i])])
          [] id = "gb_area" ->
               ListVals([i \in 1..Len(ss) |-> gb_area(ss[i])])
          [] id = "supercell_type" ->
               ListVals([i \in 1..Len(ss) |-> supercell_type(ss[i])])
          [] id = "gb_boundary_vac" ->
               ListVals([i \in 1..Len(ss) |-> gb_boundary_vac(ss[i])])
          [] id = "csi_idx" ->
               ListVals([i \in 1..Len(ss) |-> ss[i].csi_idx])
          [] id = "grid_idx" ->
               ListVals([i \in 1..Len(ss) |-> ss[i].grid_idx])
          [] id = "point_idx" ->
               ListVals([i \in 1..Len(ss) |-> ss[i].point_idx])
          [] OTHER -> EmptyVals]

----------------------------------------------------------------------------
(* gb_energy(out, req_vars) *)

\* srs_vals: per simulation, the tuple of its values of the series in
\* series_id, each a declared series or the vals of the variable of that
\* id; [0] for every simulation when series_id is empty.
SeriesColumn(i, ss, vs) ==
    IF \E k \in 1..Len(series_name) : series_name[k] = i
    THEN [s \in 1..Len(ss) |-> ss[s].series]
    ELSE LET vrs == Variables(vs)
         IN  vrs[dict_from_list(vrs, [id |-> i])].vals.items

SrsVals(series_id, ss, vs) ==
    IF Len(series_id) = 0
    THEN [s \in 1..Len(ss) |-> <<0>>]
    ELSE [s \in 1..Len(ss) |->
             [k \in 1..Len(series_id) |-> SeriesColumn(series_id[k], ss, vs)[s]]]

\* Lines 402-406: the GB energy of gb_i against bulk_i.
GbValue(energy, n_atoms, area, gb_i, bulk_i) ==
    LET gb_num == Rat(n_atoms[gb_i])
        bulk_num == Rat(n_atoms[bulk_i])
        bulk_frac == RatDiv(gb_num, bulk_num)
    IN  RatDiv(RatSub(Rat(energy[gb_i]), RatMul(bulk_frac, Rat(energy[bulk_i]))),
               Rat(2 * area[gb_i][1]))

\* The inner loop over bulk_idx (lines 399-406), from its k-th element on:
\* E_gb is assigned at every bulk simulation whose series values match.
\* Mutant: the loop leaves at the first match.
RECURSIVE BulkLoopBreak(_, _, _, _, _, _, _, _)
BulkLoopBreak(E_gb, gb_i, bulk_idx, k, srs_vals, energy, n_atoms, area) ==
    IF k > Len(bulk_idx) THEN E_gb
    ELSE IF srs_vals[gb_i] = srs_vals[bulk_idx[k]]
         THEN GbValue(energy, n_atoms, area, gb_i, bulk_idx[k])
         ELSE BulkLoopBreak(E_gb, gb_i, bulk_idx, k + 1, srs_vals, energy,
                            n_atoms, area)

RECURSIVE BulkLoop(_, _, _, _, _, _, _, _)
BulkLoop(E_gb, gb_i, bulk_idx, k, srs_vals, energy, n_atoms, area) ==
    IF k > Len(bulk_idx) THEN E_gb
    ELSE BulkLoop(IF srs_vals[gb_i] = srs_vals[bulk_idx[k]]
                  THEN GbValue(energy, n_atoms, area, gb_i, bulk_idx[k])
                  ELSE E_gb,
                  gb_i, bulk_idx, k + 1, srs_vals, energy, n_atoms, area)

\* Lines 408-411.
\* Mutant: the factor is applied whatever the unit.
UnitScaleAlways(E_gb, unit) ==
    IF E_gb # None
    THEN RatMul(E_gb, <<GB_UNIT_FACTOR_NUM, GB_UNIT_FACTOR_DEN>>)
    ELSE None

UnitScale(E_gb, unit) ==
    IF E_gb # None
    THEN IF unit = "J/m^2"
         THEN RatMul(E_gb, <<GB_UNIT_FACTOR_NUM, GB_UNIT_FACTOR_DEN>>)
         ELSE E_gb
    ELSE None

\* all_E_gb, the list gb_energy assigns to the vals of its definition.
gb_energy(ss, a, vs) ==
    LET energy == vs["energy"].items
        n_atoms == vs["num_atoms"].items
        area == vs["gb_area"].items
        sup_type == vs["supercell_type"].items
        num_sims == Len(ss)
        srs_vals == SrsVals(a.series_id, ss, vs)
        idx == [i \in 1..num_sims |-> i]
        bulk_idx == SelectSeq(idx, LAMBDA i : sup_type[i] = "bulk")
    IN  [gb_i \in 1..num_sims |->
            IF sup_type[gb_i] = "bicrystal"
            THEN UnitScale(BulkLoop(None, gb_i, bulk_idx, 1, srs_vals,
                                    energy, n_atoms, area),
                           a.unit)
            ELSE None]

RunGbEnergy ==
    /\ phase = "gb_energy"
    /\ vars' = [vars EXCEPT !["gb_energy"] = ListVals(gb_energy(sims, args, vars))]
    /\ phase' = "gamma_surface_info"
    /\ UNCHANGED <<sims, args>>

----------------------------------------------------------------------------
(* energy(out, sim, sim_idx, energy_src, opt_step=None)                    *)
(* A Python value carries its type: [t |-> "none"], [t |-> "int", v |-> n], *)
(* [t |-> "bool", b |-> TRUE], [t |-> "float", f |-> n],                    *)
(* [t |-> "str", s |-> "0"], [t |-> "list", items |-> <<...>>].             *)

\* seq[idx] of a Python list: idx counts from 0, a negative idx from the
\* end; an idx that is None or outside the list raises.
PyIndexable(seq, idx) ==
    idx # None /\ idx[1] >= -Len(seq) /\ idx[1] < Len(seq)

PyItem(seq, idx) ==
    IF idx[1] >= 0 THEN seq[idx[1] + 1] ELSE seq[Len(seq) + idx[1] + 1]

NoFn == [fn |-> "none"]
NoRet == [state |-> "none"]

CallIdle == call = NoFn /\ ret = NoRet

PyNone == [t |-> "none"]
PyInt(n) == [t |-> "int", v |-> n]
PyFloat(n) == [t |-> "float", f |-> n]
PyBool(b) == [t |-> "bool", b |-> b]
PyStr(x) == [t |-> "str", s |-> x]
PyList(items) == [t |-> "list", items |-> items]

\* isinstance(x, int): bool is a subclass of int.
IsInstanceInt(x) == x.t \in {"int", "bool"}

\* The index an int stands for (True is 1, False is 0).
IndexOf(x) == IF x.t = "bool" THEN (IF x.b THEN 1 ELSE 0) ELSE x.v

Returned(v) == [state |-> "returned", val |-> v]
Raised(e) == [state |-> "raised", exc |-> e]

\* Mutant: every method allows the sources of castep.
allowed_en_srcs_all(method) ==
    {"final_energy", "final_fenergy", "final_zenergy"}

allowed_en_srcs(method) ==
    IF method = "castep"
    THEN {"final_energy", "final_fenergy", "final_zenergy"}
    ELSE {"final_energy"}

\* energy[opt_step]: a list gives its item or IndexError, a float TypeError.
Subscript(stored, opt_step) ==
    IF stored.t # "list" THEN Raised("TypeError")
    ELSE IF PyIndexable(stored.items, Some(IndexOf(opt_step)))
    THEN Returned(PyFloat(PyItem(stored.items, Some(IndexOf(opt_step)))))
    ELSE Raised("IndexError")

energy(sim, energy_src, opt_step) ==
    IF energy_src \notin allowed_en_srcs(sim.method)
    THEN Raised("ValueError")
    ELSE IF opt_step = PyNone THEN Returned(sim.results[energy_src])
    ELSE IF ~IsInstanceInt(opt_step) THEN Raised("ValueError")
    ELSE Subscript(sim.results[energy_src], opt_step)

RunEnergy ==
    /\ call.fn = "energy"
    /\ ret = NoRet
    /\ ret' = energy(call.sim, call.energy_src, call.opt_step)
    /\ UNCHANGED call

\* The calls looked at.  results holds, per source, the energies of the
\* steps of the run or the one final energy.
EnergyCalls ==
    LET StepEnergies(base) == PyList([k \in 1..NumSteps |-> base - k])
        EnergyResults ==
            {[final_energy |-> StepEnergies(0),
              final_fenergy |-> StepEnergies(10),
              final_zenergy |-> StepEnergies(20)],
             [final_energy |-> PyFloat(-1), final_fenergy |-> PyFloat(-11),
              final_zenergy |-> PyFloat(-21)]}
        OptStepValues ==
            {PyNone, PyStr("0"), PyFloat(0), PyBool(TRUE)}
            \cup {PyInt(n) : n \in -(NumSteps + 1)..NumSteps}
    IN  {[fn |-> "energy", sim |-> [method |-> m, results |-> r],
          energy_src |-> src, opt_step |-> o] :
            m \in {"castep", "lammps"}, r \in EnergyResults,
            src \in {"final_energy", "final_fenergy", "final_zenergy",
                     "total_energy"},
            o \in OptStepValues}

----------------------------------------------------------------------------
(* gamma_surface_info(out, req_vars, common_series_info) *)

\* The common series info of the batch: per session, its records, each
\* with its grids.  Session 0 has one record with one grid of two points;
\* session 1 has no record.
TheGrid ==
    [row_idx |-> <<0, 0>>, col_idx |-> <<0, 1>>, shape |-> <<1, 2>>,
     grid_points_std |-> <<<<0, 3>>, <<0, 0>>>>,
     grid_points_frac |-> <<<<0, 1>>, <<0, 0>>>>,
     grid_points_num_den |-> <<<<0, 2>>, <<0, 0>>>>]

common_series_info == << <<[grids |-> <<TheGrid>>]>>, <<>> >>

NoInfo ==
    [row_idx |-> None, col_idx |-> None, x_std_vals |-> None,
     y_std_vals |-> None, x_frac_vals |-> None, y_frac_vals |-> None,
     x_num_den_vals |-> None, y_num_den_vals |-> None, grid_shape |-> None]

\* Lines 459-475: the fields of the grid at pnt_idx.
GridInfo(grid, pnt_idx) ==
    [row_idx |-> Some(PyItem(grid.row_idx, pnt_idx)),
     col_idx |-> Some(PyItem(grid.col_idx, pnt_idx)),
     x_std_vals |-> Some(PyItem(grid.grid_points_std[1], pnt_idx)),
     y_std_vals |-> Some(PyItem(grid.grid_points_std[2], pnt_idx)),
     x_frac_vals |-> Some(PyItem(grid.grid_points_frac[1], pnt_idx)),
     y_frac_vals |-> Some(PyItem(grid.grid_points_frac[2], pnt_idx)),
     x_num_den_vals |-> Some(PyItem(grid.grid_points_num_den[1], pnt_idx)),
     y_num_den_vals |-> Some(PyItem(grid.grid_points_num_den[2], pnt_idx)),
     grid_shape |-> grid.shape]

\* One pass of the loop over the simulations (lines 439-496): [err, info].
\* The two lookups under try/except give csi_exists and grid_exists; the
\* reads at pnt_idx are under no try.
\* Mutant: the grid lookup is not caught either.
SimInfoGridUncaught(sii, c_idx, g_idx, pnt_idx, csi_all) ==
    LET csi_exists ==
            /\ PyIndexable(csi_all, Some(sii))
            /\ PyIndexable(PyItem(csi_all, Some(sii)), c_idx)
    IN  IF ~csi_exists THEN [err |-> FALSE, info |-> NoInfo]
        ELSE LET csi == PyItem(PyItem(csi_all, Some(sii)), c_idx)
             IN  IF ~PyIndexable(csi.grids, g_idx)
                 THEN [err |-> TRUE, info |-> NoInfo]
                 ELSE LET grid == PyItem(csi.grids, g_idx)
                      IN  IF PyIndexable(grid.row_idx, pnt_idx)
                          THEN [err |-> FALSE, info |-> GridInfo(grid, pnt_idx)]
                          ELSE [err |-> TRUE, info |-> NoInfo]

SimInfo(sii, c_idx, g_idx, pnt_idx, csi_all) ==
    LET csi_exists ==
            /\ PyIndexable(csi_all, Some(sii))
            /\ PyIndexable(PyItem(csi_all, Some(sii)), c_idx)
    IN  IF ~csi_exists THEN [err |-> FALSE, info |-> NoInfo]
        ELSE LET csi == PyItem(PyItem(csi_all, Some(sii)), c_idx)
                 grid_exists == PyIndexable(csi.grids, g_idx)
             IN  IF ~grid_exists THEN [err |-> FALSE, info |-> NoInfo]
                 ELSE LET grid == PyItem(csi.grids, g_idx)
                      IN  IF PyIndexable(grid.row_idx, pnt_idx)
                          THEN [err |-> FALSE, info |-> GridInfo(grid, pnt_idx)]
                          ELSE [err |-> TRUE, info |-> NoInfo]

\* The loop from simulation sii_idx on, all_gamma_infos[info_name] being acc
\* so far: [err, vals].  An exception ends the call.
RECURSIVE GammaLoop(_, _, _, _, _, _)
GammaLoop(sii_idx, acc, info_name, ss, vs, csi_all) ==
    IF sii_idx > Len(ss) THEN [err |-> FALSE, vals |-> acc]
    ELSE LET r == SimInfo(ss[sii_idx].sesh,
                          vs["csi_idx"].items[sii_idx],
                          vs["grid_idx"].items[sii_idx],
                          vs["point_idx"].items[sii_idx], csi_all)
         IN  IF r.err THEN [err |-> TRUE, vals |-> <<>>]
             ELSE GammaLoop(sii_idx + 1, Append(acc, r.info[info_name]),
                            info_name, ss, vs, csi_all)

\* [err, vals]: whether the call raised, and the list it assigns to the
\* vals of its definition.
gamma_surface_info(ss, info_name, vs, csi_all) ==
    IF ~IsGammaInfo(info_name) THEN [err |-> TRUE, vals |-> <<>>]
    ELSE GammaLoop(1, <<>>, info_name, ss, vs, csi_all)

\* The definitions are evaluated in the order get_depends lists them: after
\* one of master_gamma's gamma_surface_info definitions comes the next, and
\* after the last master_gamma itself.
NextInfo(info_name) ==
    LET k == CHOOSE j \in 1..Len(MASTER_INFO_NAMES) :
                 MASTER_INFO_NAMES[j] = info_name
    IN  MASTER_INFO_NAMES[k + 1]

IsMasterInfo(nm) ==
    \E k \in 1..Len(MASTER_INFO_NAMES) : MASTER_INFO_NAMES[k] = nm

RunGammaSurfaceInfo ==
    /\ phase = "gamma_surface_info"
    /\ LET r == gamma_surface_info(sims, args.info_name, vars,
                                   common_series_info)
       IN  IF r.err
           THEN /\ phase' = "error in gamma_surface_info"
                /\ UNCHANGED <<vars, args>>
           ELSE /\ vars' = [vars EXCEPT ![args.info_name] = ListVals(r.vals)]
                /\ IF ~IsMasterInfo(args.info_name)
                   THEN phase' = "done" /\ UNCHANGED args
                   ELSE IF args.info_name = "grid_shape"
                   THEN phase' = "master_gamma" /\ UNCHANGED args
                   ELSE /\ args' = [args EXCEPT
                                       !.info_name = NextInfo(args.info_name)]
                        /\ UNCHANGED phase
    /\ UNCHANGED sims

----------------------------------------------------------------------------
(* Batches *)

\* What a batch fixes of its i-th simulation when only gb_energy is looked
\* at: the atom count and the boundary area follow from the position.
GbSim(i, st, e, sv) ==
    [sup_type |-> st, energy |-> e, series |-> sv,
     num_atoms |-> 1 + (i % 2), boundary_area |-> i, boundary_vac |-> 1,
     sesh |-> 0, csi_idx |-> Some(0), grid_idx |-> Some(0),
     point_idx |-> Some(0)]

GbBatches ==
    {[i \in 1..NumSims |-> GbSim(i, f[i][1], f[i][2], f[i][3])] :
        f \in [1..NumSims ->
                  {"bicrystal", "bulk", "surface"} \X {-2, -1} \X {0, 1}]}

GammaSim(l) ==
    [sup_type |-> "bicrystal", energy |-> -1, series |-> 0,
     num_atoms |-> 1, boundary_area |-> 1, boundary_vac |-> 1,
     sesh |-> l[1], csi_idx |-> l[2], grid_idx |-> l[3], point_idx |-> l[4]]

\* What a batch fixes of a simulation when only gamma_surface_info is
\* looked at: its session and its three indices.
GammaBatches ==
    LET Lookups ==
    {<<0, Some(0), Some(0), Some(0)>>,     \* the first point of the grid
     <<0, Some(0), Some(0), Some(1)>>,     \* the second point
     <<0, Some(0), Some(0), Some(-1)>>,    \* the last point, from the end
     <<1, Some(0), Some(0), Some(0)>>,     \* a session without records
     <<2, Some(0), Some(0), Some(0)>>,     \* no such session
     <<0, None, Some(0), Some(0)>>,        \* no csi_idx
     <<0, Some(1), Some(0), Some(0)>>,     \* no such record
     <<0, Some(0), Some(1), Some(0)>>,     \* no such grid
     <<0, Some(0), Some(0), Some(2)>>}     \* no such point
    IN  {[i \in 1..NumSims |-> GammaSim(f[i])] : f \in [1..NumSims -> Lookups]}

\* The batches the three multi-simulation computes run over one after the
\* other: a bulk simulation is at no point of the grid; a bicrystal is at
\* one of its two points, or at none, and has one of two vacuum values.
PipeKinds ==
    {<<"bulk", None, 1>>} \cup
    {<<"bicrystal", c, v>> : c \in {<<Some(0), Some(0)>>,
                                    <<Some(0), Some(1)>>, None},
                            v \in {1, 2}}

PipeSim(i, k) ==
    [sup_type |-> k[1], energy |-> -i, series |-> 0,
     num_atoms |-> 1 + (i % 2), boundary_area |-> 1, boundary_vac |-> k[3],
     sesh |-> 0,
     csi_idx |-> IF k[2] = None THEN None ELSE k[2][1],
     grid_idx |-> Some(0),
     point_idx |-> IF k[2] = None THEN Some(0) ELSE k[2][2]]

PipeBatches ==
    {[i \in 1..NumSims |-> PipeSim(i, f[i])] : f \in [1..NumSims -> PipeKinds]}

\* The batches a fit can come of: a cell is fitted from three vacuum values
\* on, and a bicrystal has a GB energy only with a bulk simulation in the
\* batch, which the last simulation is.  Every bicrystal is at one of the
\* two points of the grid.
FitBatches ==
    LET FitKinds ==
            {<<"bulk", None, 1>>} \cup
            {<<"bicrystal", <<Some(0), Some(p)>>, v>> :
                p \in {0, 1}, v \in {1, 2, 3}}
    IN  {[i \in 1..NumFitSims |-> PipeSim(i, f[i])] :
            f \in {g \in [1..NumFitSims -> FitKinds] :
                      g[NumFitSims][1] = "bulk"}}

NoArgs == [series_id |-> <<>>, unit |-> "", info_name |-> ""]

BatchIdle ==
    /\ sims = <<>>
    /\ args = NoArgs
    /\ vars = SingleVals(<<>>)
    /\ phase = "idle"

ResolverIdle ==
    /\ pv = PREDEFINED_VARS
    /\ kept = NoCall
    /\ cur = NoCall
    /\ nwrites = 0

GbInit ==
    /\ ResolverIdle /\ CallIdle
    /\ sims \in GbBatches
    /\ args \in {[NoArgs EXCEPT !.series_id = s, !.unit = u] :
                    s \in {<<>>, <<"gb_size">>, <<"gb_size", "num_atoms">>},
                    u \in {"J/m^2", "eV/A^2"}}
    /\ vars = SingleVals(sims)
    /\ phase = "gb_energy"

GbNext == RunGbEnergy /\ UNCHANGED <<resolverVars, callVars>>

GammaInit ==
    /\ ResolverIdle /\ CallIdle
    /\ sims \in GammaBatches
    /\ args \in {[NoArgs EXCEPT !.info_name = n] : n \in {"row_idx", "x_num_den_vals", "grid_shape", "gamma_shape"}}
    /\ vars = SingleVals(sims)
    /\ phase = "gamma_surface_info"

GammaNext == RunGammaSurfaceInfo /\ UNCHANGED <<resolverVars, callVars>>

EnergyInit ==
    /\ ResolverIdle /\ BatchIdle
    /\ call \in EnergyCalls
    /\ ret = NoRet

EnergyNext == RunEnergy /\ UNCHANGED <<resolverVars, batchVars>>

----------------------------------------------------------------------------
(* master_gamma(out, req_vars).  A float array is a sequence (of rows, for *)
(* a grid); a float is a fraction, NaN where nothing was stored.           *)

NanGrid(shp) == [r \in 1..shp[1] |-> [c \in 1..shp[2] |-> NaN]]

\* arr[ri, ci] = v and arr[ri][ci], ri and ci counted from 0
GridSet(arr, ri, ci, v) == [arr EXCEPT ![ri + 1][ci + 1] = v]
GridGet(arr, ri, ci) == arr[ri + 1][ci + 1]

\* arr.reshape(-1): the rows one after the other
RECURSIVE Flatten(_)
Flatten(arr) == IF arr = <<>> THEN <<>> ELSE Head(arr) \o Flatten(Tail(arr))

\* Lines 529-533: shp after the first loop; not bound when every GB energy
\* is None.
FirstShape(gb_en, grid_shape) ==
    LET found == {i \in 1..Len(gb_en) : gb_en[i] # None}
    IN  IF found = {} THEN [bound |-> FALSE]
        ELSE [bound |-> TRUE,
              shp |-> grid_shape[CHOOSE i \in found :
                                    \A j \in found : i <= j]]

\* Lines 541-561, from simulation en_idx on (counted from 1 here, stored
\* counted from 0).  a is [err, all_E, X, Y, XY_frac, first_en_idx].  A
\* simulation with a GB energy but with None for its row and column makes
\* np.isnan give an array of more than one truth value: that raises.
RECURSIVE BucketLoop(_, _, _, _)
BucketLoop(a, en_idx, shp, vs) ==
    IF a.err \/ en_idx > Len(vs["gb_energy"].items) THEN a
    ELSE LET en == vs["gb_energy"].items[en_idx]
             ri == vs["row_idx"].items[en_idx]
             ci == vs["col_idx"].items[en_idx]
             srs_v == vs["gb_boundary_vac"].items[en_idx]
         IN  IF en = None THEN BucketLoop(a, en_idx + 1, shp, vs)
             ELSE IF ri = None \/ ci = None
                     \/ ~PyIndexable(NanGrid(shp), ri)
                     \/ ~PyIndexable(NanGrid(shp)[1], ci)
             THEN [a EXCEPT !.err = TRUE]
             ELSE LET r == ri[1]
                      c == ci[1]
                      blank == IF srs_v \in DOMAIN a.all_E THEN a.all_E[srs_v]
                               ELSE NanGrid(shp)
                      E1 == (srs_v :> GridSet(blank, r, c, en)) @@ a.all_E
                      isnew == GridGet(a.X, r, c) = NaN
                  IN  BucketLoop(
                        IF isnew
                        THEN [err |-> FALSE, all_E |-> E1,
                              X |-> GridSet(a.X, r, c,
                                      Rat(vs["x_std_vals"].items[en_idx][1])),
                              Y |-> GridSet(a.Y, r, c,
                                      Rat(vs["y_std_vals"].items[en_idx][1])),
                              XY_frac |-> GridSet(a.XY_frac, r, c,
                                      <<Rat(vs["x_frac_vals"].items[en_idx][1]),
                                        Rat(vs["y_frac_vals"].items[en_idx][1])>>),
                              first_en_idx |->
                                  GridSet(a.first_en_idx, r, c, Rat(en_idx - 1))]
                        ELSE [a EXCEPT !.all_E = E1],
                        en_idx + 1, shp, vs)

\* sorted(all_E.items()): the keys in rising order.
RECURSIVE SortedKeys(_)
SortedKeys(S) ==
    IF S = {} THEN <<>>
    ELSE LET k == CHOOSE x \in S : \A y \in S : x[1] <= y[1]
         IN  <<k>> \o SortedKeys(S \ {k})

\* Lines 575-585: the finite (vacuum, energy) points of cell (ri, ci).
CellPoints(all_E, ri, ci) ==
    LET keys == SortedKeys(DOMAIN all_E)
        pts == [k \in 1..Len(keys) |->
                   <<Rat(keys[k][1]), GridGet(all_E[keys[k]], ri, ci)>>]
    IN  SelectSeq(pts, LAMBDA pt : pt[2] # NaN)

\* Lines 587-596.  What np.polyfit makes of the points is not computed:
\* the minimum and the coefficients stand as terms over the points.
FitTerm(what, pts) == <<"fit", what, pts>>

FittedGrid(what, all_E, shp) ==
    [r \in 1..shp[1] |-> [c \in 1..shp[2] |->
        LET pts == CellPoints(all_E, r - 1, c - 1)
        IN  IF Len(pts) > 2 THEN FitTerm(what, pts) ELSE NaN]]

\* What first_en_idx.astype(int) makes of a NaN depends on the platform:
\* the lowest integer, which is no index of an array, or 0.
NanCasts == {"lowest", "zero"}

\* Mutant: the values of the cells are given as they are, not scattered
\* over the simulations.
ScatterNot(flat, first_flat, num_sims, nan_cast) ==
    [err |-> FALSE, arr |-> flat]

\* Lines 601-611: arr = NaN * num_sims; arr[first_en_idx] = flat.  Of two
\* cells with the same index the later one stays.
RECURSIVE ScatterFrom(_, _, _, _, _)
ScatterFrom(arr, flat, first_flat, p, nan_cast) ==
    IF p > Len(flat) THEN [err |-> FALSE, arr |-> arr]
    ELSE IF first_flat[p] = NaN /\ nan_cast = "lowest"
    THEN [err |-> TRUE, arr |-> arr]
    ELSE LET idx == IF first_flat[p] = NaN THEN 0 ELSE first_flat[p][1]
         IN  ScatterFrom([arr EXCEPT ![idx + 1] = flat[p]], flat,
                         first_flat, p + 1, nan_cast)

Scatter(flat, first_flat, num_sims, nan_cast) ==
    ScatterFrom([i \in 1..num_sims |-> NaN], flat, first_flat, 1, nan_cast)

DictVals(d) == [kind |-> "dict"] @@ d

\* [err, vals]: whether the call raised, and the mapping it assigns to the
\* vals of its definition.
master_gamma(vs, nan_cast) ==
    LET gb_en == vs["gb_energy"].items
        num_sims == Len(gb_en)
        first == FirstShape(gb_en, vs["grid_shape"].items)
    IN  IF ~first.bound \/ first.shp = None
        THEN [err |-> TRUE, vals |-> EmptyVals]
        ELSE
        LET shp == first.shp
            b == BucketLoop([err |-> FALSE, all_E |-> <<>>, X |-> NanGrid(shp),
                             Y |-> NanGrid(shp), XY_frac |-> NanGrid(shp),
                             first_en_idx |-> NanGrid(shp)], 1, shp, vs)
        IN  IF b.err THEN [err |-> TRUE, vals |-> EmptyVals]
            ELSE
            LET fitted_E == FittedGrid("E_min", b.all_E, shp)
                fitted_vac == FittedGrid("vac_min", b.all_E, shp)
                fitted_p1d == FittedGrid("coeffs", b.all_E, shp)
                first_flat == Flatten(b.first_en_idx)
                fits == Scatter(Flatten(fitted_p1d), first_flat, num_sims,
                                nan_cast)
                E_min_flat == Scatter(Flatten(fitted_E), first_flat, num_sims,
                                      nan_cast)
                vac_min_flat == Scatter(Flatten(fitted_vac), first_flat,
                                        num_sims, nan_cast)
            IN  IF fits.err THEN [err |-> TRUE, vals |-> EmptyVals]
                ELSE [err |-> FALSE,
                      vals |-> DictVals(
                         [X |-> b.X, Y |-> b.Y, XY_frac |-> b.XY_frac,
                          E |-> b.all_E, E_min |-> fitted_E,
                          vac_min |-> fitted_vac, fits |-> fits.arr,
                          vac_min_flat |-> vac_min_flat.arr,
                          E_min_flat |-> E_min_flat.arr])]

RunMasterGamma ==
    /\ phase = "master_gamma"
    /\ \E nan_cast \in NanCasts :
          LET r == master_gamma(vars, nan_cast)
          IN  IF r.err
              THEN phase' = "error in master_gamma" /\ UNCHANGED vars
              ELSE /\ vars' = [vars EXCEPT !["master_gamma"] = r.vals]
                   /\ phase' = "done"
    /\ UNCHANGED <<sims, args>>

----------------------------------------------------------------------------
(* geometry.py.  A coordinate is <<a, t>>, standing for a + t * tol/2 with *)
(* exact fractions a and t: the part t tells apart values that differ by   *)
(* less than anything the part a can show.  A vector is a triple, a matrix *)
(* three rows; the edge vectors of a box are the columns of its matrix.    *)

RatAdd(a, b) == RatNorm(a[1] * b[2] + b[1] * a[2], a[2] * b[2])
RatLess(a, b) == a[1] * b[2] < b[1] * a[2]
RatIsInt(a) == a[2] = 1

\* Mutant: rounds toward zero, as a cast to int does.
RatFloorTrunc(a) ==
    IF a[1] >= 0 THEN a[1] \div a[2] ELSE -((-a[1]) \div a[2])

\* The greatest integer not above a, the least not below it.
RatFloor(a) == a[1] \div a[2]
RatCeil(a) == -((-a[1]) \div a[2])

Num(n) == <<Rat(n), Rat(0)>>
Tiny(n, t) == <<Rat(n), Rat(t)>>
NumAdd(x, y) == <<RatAdd(x[1], y[1]), RatAdd(x[2], y[2])>>
NumScale(r, x) == <<RatMul(r, x[1]), RatMul(r, x[2])>>
NumLess(x, y) ==
    RatLess(x[1], y[1]) \/ (x[1] = y[1] /\ RatLess(x[2], y[2]))

\* tol = 1e-12 is two of the units of the part t.
TolUnits == 2

\* vectors.snap_arr_to_val(arr, val, tol) on one number, with val 0: a
\* value nearer to 0 than tol becomes 0.
snap_to_zero(x) ==
    IF x[1] = Rat(0) /\ RatLess(Rat(-TolUnits), x[2])
                     /\ RatLess(x[2], Rat(TolUnits))
    THEN Num(0) ELSE x

\* np.floor and np.ceil
Floor(x) ==
    IF RatIsInt(x[1]) /\ RatLess(x[2], Rat(0)) THEN x[1][1] - 1
    ELSE RatFloor(x[1])

Ceil(x) ==
    IF RatIsInt(x[1]) /\ RatLess(Rat(0), x[2]) THEN x[1][1] + 1
    ELSE RatCeil(x[1])

VecAdd(u, v) == [i \in 1..3 |-> NumAdd(u[i], v[i])]
Column(mat, j) == [i \in 1..3 |-> mat[i][j]]
ZeroVec == [i \in 1..3 |-> Num(0)]

\* get_box_corners(box, origin) for one box: its 8 corners, in the order
\* of lines 56-63.
get_box_corners(box, origin) ==
    LET c0 == Column(box, 1)
        c1 == Column(box, 2)
        c2 == Column(box, 3)
        corners == <<ZeroVec, c0, c1, c2, VecAdd(c0, c1), VecAdd(c0, c2),
                     VecAdd(c1, c2), VecAdd(VecAdd(c0, c1), c2)>>
    IN  [k \in 1..8 |-> VecAdd(corners[k], origin)]

\* np.linalg.inv of a matrix of integers, by cofactors; a singular matrix
\* raises.
Det3(b) ==
      b[1][1] * (b[2][2] * b[3][3] - b[2][3] * b[3][2])
    - b[1][2] * (b[2][1] * b[3][3] - b[2][3] * b[3][1])
    + b[1][3] * (b[2][1] * b[3][2] - b[2][2] * b[3][1])

Others(i) == IF i = 1 THEN <<2, 3>> ELSE IF i = 2 THEN <<1, 3>> ELSE <<1, 2>>

Cofactor(b, i, j) ==
    LET r == Others(i)
        c == Others(j)
        minor == b[r[1]][c[1]] * b[r[2]][c[2]] - b[r[1]][c[2]] * b[r[2]][c[1]]
    IN  IF (i + j) % 2 = 0 THEN minor ELSE -minor

Inverse(b) ==
    [i \in 1..3 |-> [j \in 1..3 |-> RatNorm(Cofactor(b, j, i), Det3(b))]]

\* matrix of fractions @ vector of coordinates
MatVec(m, v) ==
    [i \in 1..3 |->
        NumAdd(NumAdd(NumScale(m[i][1], v[1]), NumScale(m[i][2], v[2])),
               NumScale(m[i][3], v[3]))]

RECURSIVE MinFrom(_, _, _, _)
MinFrom(cs, i, k, best) ==
    IF k > Len(cs) THEN best
    ELSE MinFrom(cs, i, k + 1,
                 IF NumLess(cs[k][i], best) THEN cs[k][i] ELSE best)

RECURSIVE MaxFrom(_, _, _, _)
MaxFrom(cs, i, k, best) ==
    IF k > Len(cs) THEN best
    ELSE MaxFrom(cs, i, k + 1,
                 IF NumLess(best, cs[k][i]) THEN cs[k][i] ELSE best)

\* np.min and np.max over the corners, along axis i
AxisMin(cs, i) == MinFrom(cs, i, 2, cs[1][i])
AxisMax(cs, i) == MaxFrom(cs, i, 2, cs[1][i])

\* Lines 173-196 of get_bounding_box, bound_vecs having an inverse.
BoundOf(box, bound_vecs) ==
    LET bound_vecs_inv == Inverse(bound_vecs)
        corners == get_box_corners(box, ZeroVec)
        corners_bound == [k \in 1..8 |-> MatVec(bound_vecs_inv, corners[k])]
        mins_floor ==
            [i \in 1..3 |-> Floor(snap_to_zero(AxisMin(corners_bound, i)))]
        maxs_ceil ==
            [i \in 1..3 |-> Ceil(snap_to_zero(AxisMax(corners_bound, i)))]
        bound_box_bv == [i \in 1..3 |-> maxs_ceil[i] - mins_floor[i]]
    IN  [bound_box |->
            [i \in 1..3 |-> [j \in 1..3 |->
                snap_to_zero(Num(bound_box_bv[j] * bound_vecs[i][j]))]],
         bound_box_origin |->
            [i \in 1..3 |-> Num(bound_vecs[i][1] * mins_floor[1]
                                + bound_vecs[i][2] * mins_floor[2]
                                + bound_vecs[i][3] * mins_floor[3])],
         bound_box_bv |-> bound_box_bv,
         bound_box_origin_bv |-> mins_floor]

get_bounding_box(box, bound_vecs) ==
    IF Det3(bound_vecs) = 0 THEN Raised("LinAlgError")
    ELSE Returned(BoundOf(box, bound_vecs))

RunGetBoundingBox ==
    /\ call.fn = "get_bounding_box"
    /\ ret = NoRet
    /\ ret' = get_bounding_box(call.box, call.bound_vecs)
    /\ UNCHANGED call

\* The calls looked at.  The first edge vector is any vector of integers
\* in -1..MaxCoord, its last component off by a part smaller or larger
\* than tol; the other two edge vectors are of a few.
BoxOf(x, y, z, t, e2, e3) ==
    <<<<Num(x), Num(e2[1]), Num(e3[1])>>,
      <<Num(y), Num(e2[2]), Num(e3[2])>>,
      <<Tiny(z, t), Num(e2[3]), Num(e3[3])>>>>

Identity3 == <<<<1, 0, 0>>, <<0, 1, 0>>, <<0, 0, 1>>>>

\* The bases: the identity, one with an inverse of fractions, one without
\* an inverse.
BoxCalls ==
    LET Coords == -1..MaxCoord
        Boxes ==
            {BoxOf(x, y, z, t, e2, e3) :
                x \in Coords, y \in Coords, z \in Coords,
                t \in {-1, 0, 1, 3},
                e2 \in {<<0, 2, 0>>, <<0, -1, 1>>, <<1, 1, 0>>},
                e3 \in {<<0, 0, 2>>, <<0, 1, -1>>, <<-1, 0, 1>>}}
        Bases ==
            {Identity3,
             <<<<1, 1, 0>>, <<0, 1, 0>>, <<0, 0, 2>>>>,
             <<<<1, 1, 0>>, <<1, 1, 0>>, <<0, 0, 1>>>>}
    IN  {[fn |-> "get_bounding_box", box |-> b, bound_vecs |-> bv] :
            b \in Boxes, bv \in Bases}

BoxInit ==
    /\ ResolverIdle /\ BatchIdle
    /\ call \in BoxCalls
    /\ ret = NoRet

BoxNext == RunGetBoundingBox /\ UNCHANGED <<resolverVars, batchVars>>

PipeInit ==
    /\ ResolverIdle /\ CallIdle
    /\ sims \in PipeBatches
    /\ args = [NoArgs EXCEPT !.unit = "eV/A^2", !.info_name = "row_idx"]
    /\ vars = SingleVals(sims)
    /\ phase = "gb_energy"

FitInit ==
    /\ ResolverIdle /\ CallIdle
    /\ sims \in FitBatches
    /\ args = [NoArgs EXCEPT !.unit = "eV/A^2", !.info_name = "row_idx"]
    /\ vars = SingleVals(sims)
    /\ phase = "gb_energy"

PipeNext ==
    \/ RunGbEnergy /\ UNCHANGED <<resolverVars, callVars>>
    \/ RunGammaSurfaceInfo /\ UNCHANGED <<resolverVars, callVars>>
    \/ RunMasterGamma /\ UNCHANGED <<resolverVars, callVars>>

----------------------------------------------------------------------------
(* energy_per_atom(out, sim, sim_idx, energy_src, opt_step) *)

\* Line 271: get_depends(compute_name='energy_per_atom', inc_id=False,
\* inc_val=False, energy_src=energy_src, opt_step=opt_step).
PerAtomDepends(energy_src, opt_step, p) ==
    get_depends("energy_per_atom", FALSE, FALSE,
                [energy_src |-> energy_src, opt_step |-> opt_step], p)

\* req_vars[k]['vals'][sim_idx], req_vars[k] being vrs[at], or None where
\* dict_from_list found no variable (at = 0).
ReqVal(vrs, at, sim_idx) ==
    IF at = 0 THEN Raised("TypeError")
    ELSE IF ~HasKey(vrs[at], "vals") THEN Raised("KeyError")
    ELSE IF ~PyIndexable(vrs[at].vals, Some(sim_idx))
    THEN Raised("IndexError")
    ELSE Returned(PyItem(vrs[at].vals, Some(sim_idx)))

\* vrs is out['variables']; the result is the fraction e / n.
energy_per_atom(vrs, sim_idx, energy_src, opt_step, p) ==
    LET rv == PerAtomDepends(energy_src, opt_step, p)
        req_vars_defn == DerefList(rv.out, rv.pv)
        req_vars == [k \in 1..Len(req_vars_defn) |->
                        dict_from_list(vrs, req_vars_defn[k])]
        n == ReqVal(vrs, req_vars[1], sim_idx)
        e == ReqVal(vrs, req_vars[2], sim_idx)
    IN  IF n.state = "raised" THEN n
        ELSE IF e.state = "raised" THEN e
        ELSE IF n.val = 0 THEN Raised("ZeroDivisionError")
        ELSE Returned(RatNorm(e.val, n.val))

RunEnergyPerAtom ==
    /\ call.fn = "energy_per_atom"
    /\ ret = NoRet
    /\ pv' = PerAtomDepends(call.energy_src, call.opt_step, pv).pv
    /\ ret' = energy_per_atom(call.variables, call.sim_idx,
                              call.energy_src, call.opt_step, pv)
    /\ UNCHANGED <<kept, cur, nwrites, call>>

\* The calls looked at.  variables holds the num_atoms definition and, in
\* any order, any of the energy definitions of two sources, without
\* opt_step and with each step; every vals holds one value per simulation,
\* and the energies of different definitions differ.
PerAtomCalls ==
    LET Steps == {None} \cup {Some(k) : k \in 0..(NumSteps - 1)}
        NumAtomsDefn ==
            [type |-> "compute", name |-> "num_atoms", id |-> "num_atoms",
             vals |-> [i \in 1..NumSims |-> i]]
        Base(src, o) ==
            (IF src = "final_energy" THEN 0 ELSE 100)
            + (IF o = None THEN 0 ELSE 10 * (o[1] + 1))
        EnergyDefn(src, o) ==
            LET d == [type |-> "compute", name |-> "energy", id |-> "energy",
                      energy_src |-> src,
                      vals |-> [i \in 1..NumSims |-> Base(src, o) + i]]
            IN  IF o = None THEN d ELSE DictSet(d, "opt_step", o)
        Defns ==
            {NumAtomsDefn, EnergyDefn("final_fenergy", None)}
            \cup {EnergyDefn("final_energy", o) : o \in Steps}
        Orders ==
            {s \in UNION {[1..k -> Defns] : k \in 1..Cardinality(Defns)} :
                /\ \A i, j \in 1..Len(s) : i # j => s[i] # s[j]
                /\ \E i \in 1..Len(s) : s[i] = NumAtomsDefn}
    IN  {[fn |-> "energy_per_atom", variables |-> vrs, sim_idx |-> i,
          energy_src |-> src, opt_step |-> o] :
            vrs \in Orders, i \in 0..(NumSims - 1),
            src \in {"final_energy", "final_fenergy"}, o \in Steps}

PerAtomInit ==
    /\ ResolverIdle /\ BatchIdle
    /\ call \in PerAtomCalls
    /\ ret = NoRet

PerAtomNext == RunEnergyPerAtom /\ UNCHANGED batchVars

----------------------------------------------------------------------------
(* Specifications *)

ResolverOnlyInit == ResolverInit /\ BatchIdle /\ CallIdle

ResolverSpec ==
    ResolverOnlyInit
    /\ [][ResolverNext]_allVars

GbSpec == GbInit /\ [][GbNext]_allVars

GammaSpec == GammaInit /\ [][GammaNext]_allVars

EnergySpec == EnergyInit /\ [][EnergyNext]_allVars

BoxSpec == BoxInit /\ [][BoxNext]_allVars

PipeSpec == PipeInit /\ [][PipeNext]_allVars

FitSpec == FitInit /\ [][PipeNext]_allVars

PerAtomSpec == PerAtomInit /\ [][PerAtomNext]_allVars

----------------------------------------------------------------------------
(* Properties of the resolver *)

\* Two definitions are the same when they agree on all keys but vals.
SameDefn(a, b) ==
    /\ DOMAIN NonVals(a) = DOMAIN NonVals(b)
    /\ \A k \in DOMAIN NonVals(a) : a[k] = b[k]

\* Two lists of definitions are structurally identical.
SameDefnList(x, y) ==
    /\ Len(x) = Len(y)
    /\ \A i \in 1..Len(x) : SameDefn(x[i], y[i])

CurDefs == DerefList(cur.out, pv)
KeptDefs == DerefList(kept.out, pv)

\* C1: the list get_depends returns holds no two definitions that are equal
\* on all non-vals keys.
C1_NoDuplicateDefinitions ==
    cur.made =>
        \A i, j \in 1..Len(cur.out) :
            i < j => ~SameDefn(CurDefs[i], CurDefs[j])

\* C2: resolving gb_energy with parameters P yields exactly five
\* definitions: energy (with P's energy_src, and P's opt_step when that is
\* not None), num_atoms, gb_area, supercell_type and, last, gb_energy
\* carrying P; each once.
C2_Expected(req) ==
    LET withId(d, i) == IF req.inc_id THEN DictSet(d, "id", i) ELSE d
        e1 == withId([type |-> "compute", name |-> "energy",
                      energy_src |-> req.kwargs.energy_src], "energy")
        e == IF req.kwargs.opt_step = None THEN e1
             ELSE DictSet(e1, "opt_step", req.kwargs.opt_step)
    IN  <<e,
          withId([type |-> "compute", name |-> "num_atoms"], "num_atoms"),
          [type |-> "compute", name |-> "gb_area", id |-> "gb_area"],
          [type |-> "compute", name |-> "supercell_type",
           id |-> "supercell_type"],
          withId([type |-> "compute", name |-> "gb_energy",
                  energy_src |-> req.kwargs.energy_src,
                  opt_step |-> req.kwargs.opt_step,
                  series_id |-> req.kwargs.series_id,
                  unit |-> req.kwargs.unit], "gb_energy")>>

C2_GbEnergyDependsOrder ==
    (cur.made /\ cur.req.name = "gb_energy") =>
        /\ ~cur.err
        /\ SameDefnList(CurDefs, C2_Expected(cur.req))

\* C2 witness: gb_energy resolved with an opt_step, after an earlier list
\* holding the shared gb_area definition has been given a value.
C2_Witness ==
    /\ cur.made /\ cur.req.name = "gb_energy"
    /\ cur.req.kwargs.opt_step = Some(0)
    /\ kept.made /\ kept.req.name = "gb_energy"
    /\ HasKey(pv.gb_area, "vals") /\ pv.gb_area.vals # <<>>

\* C8: a call with a name in neither registry raises, returns no
\* definition, and leaves PREDEFINED_VARS and the lists returned before as
\* they were.
C8_UnknownComputeFails ==
    [][(nwrites' = nwrites /\ cur'.made /\
        cur'.req.name \notin (SINGLE_COMPUTE_LOOKUP \cup MULTI_COMPUTE_LOOKUP))
       => (/\ cur'.err
           /\ cur'.out = <<>>
           /\ pv' = pv
           /\ kept' \in {kept, cur})]_resolverVars

\* C8 witness: the unknown name was requested while a list was held and
\* PREDEFINED_VARS carried values.
C8_Witness ==
    /\ cur.made /\ cur.err /\ cur.req.name = "gb_width"
    /\ kept.made
    /\ pv # PREDEFINED_VARS

\* C9: a compute resolved twice with the same inc_id, inc_val and
\* parameters yields structurally identical lists, whatever calls and
\* writes lie between: the list held from an earlier call equals that of
\* the latest call when the requests are equal, and a call made now
\* returns what the same call returns in a fresh process.
C9_ResolveTwiceSame ==
    /\ (kept.made /\ cur.made /\ kept.req = cur.req) =>
           (~cur.err /\ SameDefnList(KeptDefs, CurDefs))
    /\ \A req \in Requests :
           LET now == get_depends(req.name, req.inc_id, req.inc_val,
                                  req.kwargs, pv)
               fresh == get_depends(req.name, req.inc_id, req.inc_val,
                                    req.kwargs, PREDEFINED_VARS)
           IN  /\ now.err = fresh.err
               /\ SameDefnList(DerefList(now.out, now.pv),
                               DerefList(fresh.out, fresh.pv))

\* C9 witness: the same request resolved again after a write to the list
\* of the first call.
C9_Witness ==
    /\ kept.made /\ cur.made /\ kept.req = cur.req
    /\ cur.req.name = "master_gamma"
    /\ nwrites > 0
    /\ \E i \in 1..Len(kept.out) :
           HasKey(KeptDefs[i], "vals") /\ KeptDefs[i].vals # <<>>

----------------------------------------------------------------------------
(* Properties of gb_energy *)

GbWritten == phase \notin {"idle", "gb_energy"}

GbVals == vars["gb_energy"].items

\* The tuple of matching series values of simulation i, read off the batch.
C_Tuple(i) ==
    [k \in 1..Len(args.series_id) |->
        IF args.series_id[k] = "gb_size" THEN sims[i].series
        ELSE sims[i].num_atoms]

\* The bulk simulations whose tuple equals that of simulation i.
C_Partners(i) ==
    {b \in 1..Len(sims) :
        sims[b].sup_type = "bulk" /\ C_Tuple(b) = C_Tuple(i)}

\* (E_gb - (N_gb/N_bulk) * E_bulk) / (2 * A_gb), in the requested unit.
C_GbFormula(i, b) ==
    LET n == sims[i].energy * sims[b].num_atoms
               - sims[i].num_atoms * sims[b].energy
        d == 2 * sims[i].boundary_area * sims[b].num_atoms
        v == RatNorm(n, d)
    IN  IF args.unit = "J/m^2"
        THEN RatNorm(v[1] * GB_UNIT_FACTOR_NUM, v[2] * GB_UNIT_FACTOR_DEN)
        ELSE v

C_First(S) == CHOOSE x \in S : \A y \in S : x <= y
C_Last(S) == CHOOSE x \in S : \A y \in S : x >= y

\* C3 as claimed: the GB energy of a bicrystal simulation is computed
\* against the first bulk simulation with an equal tuple of series values.
C3_FirstBulkPartner ==
    GbWritten =>
        \A i \in 1..Len(sims) :
            (sims[i].sup_type = "bicrystal" /\ C_Partners(i) # {}) =>
                GbVals[i] = C_GbFormula(i, C_First(C_Partners(i)))

\* C3 as amended: the GB energy of a bicrystal simulation is computed
\* against the last bulk simulation (highest index) with an equal tuple of
\* series values.
C3_LastBulkPartner ==
    GbWritten =>
        \A i \in 1..Len(sims) :
            (sims[i].sup_type = "bicrystal" /\ C_Partners(i) # {}) =>
                GbVals[i] = C_GbFormula(i, C_Last(C_Partners(i)))

\* C3 witness: gb_energy has run on a batch in which a bicrystal simulation
\* has two bulk partners that give different GB energies.
C3_Witness ==
    /\ GbWritten
    /\ \E i \in 1..Len(sims) :
          /\ sims[i].sup_type = "bicrystal"
          /\ Cardinality(C_Partners(i)) >= 2
          /\ C_GbFormula(i, C_First(C_Partners(i)))
               # C_GbFormula(i, C_Last(C_Partners(i)))

\* C4: a bicrystal simulation with a matching bulk partner gets
\* (E_gb - (N_gb/N_bulk)*E_bulk) / (2*A_gb), times 16.02176565 exactly when
\* the unit is 'J/m^2'; a bicrystal simulation without a partner and every
\* other simulation gets None.
C4_GbEnergyValue ==
    GbWritten =>
        /\ Len(GbVals) = Len(sims)
        /\ \A i \in 1..Len(sims) :
              IF sims[i].sup_type = "bicrystal" /\ C_Partners(i) # {}
              THEN \E b \in C_Partners(i) : GbVals[i] = C_GbFormula(i, b)
              ELSE GbVals[i] = None

\* C4 witness: gb_energy has run with unit 'J/m^2' on a batch with a
\* matched bicrystal, an unmatched bicrystal and a bulk simulation.
C4_Witness ==
    /\ GbWritten
    /\ args.unit = "J/m^2"
    /\ \E i, j \in 1..Len(sims) :
          /\ sims[i].sup_type = "bicrystal" /\ C_Partners(i) # {}
          /\ GbVals[i] # None /\ GbVals[i][1] # 0
          /\ sims[j].sup_type = "bicrystal" /\ C_Partners(j) = {}
          /\ GbVals[j] = None

----------------------------------------------------------------------------
(* gamma_surface_info: properties over GammaSpec *)

GammaFailed == phase = "error in gamma_surface_info"

GammaWritten(n) == vars[n] # EmptyVals

\* What the lookups of simulation i come to.
C_SessionRecords(i) ==
    IF PyIndexable(common_series_info, Some(sims[i].sesh))
    THEN PyItem(common_series_info, Some(sims[i].sesh)) ELSE <<>>

C_CsiFound(i) == PyIndexable(C_SessionRecords(i), sims[i].csi_idx)

C_GridFound(i) ==
    /\ C_CsiFound(i)
    /\ PyIndexable(PyItem(C_SessionRecords(i), sims[i].csi_idx).grids,
                   sims[i].grid_idx)

C_PointFound(i) ==
    /\ C_GridFound(i)
    /\ PyIndexable(TheGrid.row_idx, sims[i].point_idx)

C_PointOutside(i) == C_GridFound(i) /\ ~C_PointFound(i)

\* C6 as stated: with a recognized info_name, no lookup that is missing or
\* out of range -- no record for the session or csi_idx, no grid at
\* grid_idx, a point_idx outside the grid's point arrays -- aborts the
\* call, and each such simulation gets None.
C6_NoLookupFailureAborts ==
    /\ (GammaFailed => ~IsGammaInfo(args.info_name))
    /\ \A k \in 1..Len(ALL_GAMMA_INFOS) :
          GammaWritten(ALL_GAMMA_INFOS[k]) =>
             \A i \in 1..Len(sims) :
                ~C_PointFound(i) => vars[ALL_GAMMA_INFOS[k]].items[i] = None

\* C6: with a recognized info_name, a simulation with no record for its
\* session or csi_idx, or no grid at its grid_idx, gets None and the call
\* completes with a value for every other simulation, as long as the
\* point_idx of every simulation whose grid is found lies within the grid's
\* point arrays; a point_idx outside them, and nothing else, makes the call
\* raise, and then nothing is written.
C6_OnlyPointLookupAborts ==
    /\ (GammaFailed /\ IsGammaInfo(args.info_name)) =>
          /\ \E i \in 1..Len(sims) : C_PointOutside(i)
          /\ ~GammaWritten(args.info_name)
    /\ \A k \in 1..Len(ALL_GAMMA_INFOS) :
          GammaWritten(ALL_GAMMA_INFOS[k]) =>
             /\ Len(vars[ALL_GAMMA_INFOS[k]].items) = Len(sims)
             /\ \A i \in 1..Len(sims) :
                   /\ ~C_PointOutside(i)
                   /\ ~C_GridFound(i) =>
                         vars[ALL_GAMMA_INFOS[k]].items[i] = None
                   /\ C_GridFound(i) =>
                         vars[ALL_GAMMA_INFOS[k]].items[i] # None

\* A completed call over a batch with a missing record, a missing grid and
\* a found point.
C6_Witness ==
    /\ GammaWritten("grid_shape")
    /\ \E i \in 1..Len(sims) : ~C_CsiFound(i)
    /\ \E i \in 1..Len(sims) : C_CsiFound(i) /\ ~C_GridFound(i)
    /\ \E i \in 1..Len(sims) :
          C_PointFound(i) /\ vars["grid_shape"].items[i] = <<1, 2>>

----------------------------------------------------------------------------
(* energy: properties over EnergySpec *)

EnergyDone == call.fn = "energy" /\ ret # NoRet

C_Stored == call.sim.results[call.energy_src]

C_SrcAllowed ==
    \/ call.sim.method = "castep" /\
          call.energy_src \in {"final_energy", "final_fenergy", "final_zenergy"}
    \/ call.sim.method = "lammps" /\ call.energy_src = "final_energy"

C_OptGiven == call.opt_step.t # "none"

C_OptIsInteger == call.opt_step.t \in {"int", "bool"}

C_OptIndex ==
    IF call.opt_step.t = "int" THEN call.opt_step.v
    ELSE IF call.opt_step.b THEN 1 ELSE 0

\* opt_step is an index the stored value has: the stored value is a list
\* of n items and -n <= opt_step < n.
C_OptInRange ==
    /\ C_Stored.t = "list"
    /\ C_OptIndex >= -Len(C_Stored.items)
    /\ C_OptIndex < Len(C_Stored.items)

C_Element ==
    IF C_OptIndex >= 0 THEN C_Stored.items[C_OptIndex + 1]
    ELSE C_Stored.items[Len(C_Stored.items) + C_OptIndex + 1]

C_EnergyResult ==
    /\ (ret.state = "returned" /\ ~C_OptGiven) => ret.val = C_Stored
    /\ (ret.state = "returned" /\ C_OptGiven) =>
          /\ C_OptIsInteger /\ C_OptInRange
          /\ ret.val = PyFloat(C_Element)

\* C7 as stated: energy fails exactly when energy_src is not in the allowed
\* set of the method or opt_step is given and is not an integer; otherwise
\* it returns results[energy_src], or its element opt_step.
C7_FailsOnlyOnSrcOrType ==
    EnergyDone =>
       /\ ret.state = "raised" <=>
             (~C_SrcAllowed \/ (C_OptGiven /\ ~C_OptIsInteger))
       /\ C_EnergyResult

\* C7: energy fails exactly when energy_src is not in the allowed set of
\* the method, or opt_step is given and is not an integer, or opt_step is
\* an integer that is no index of the stored results[energy_src] (outside
\* its range, or the stored value is no sequence); otherwise it returns
\* results[energy_src] unchanged when opt_step is absent and its element
\* opt_step (a negative one counted from the end) when it is an integer.
C7_FailsAlsoOnIndex ==
    EnergyDone =>
       /\ ret.state = "raised" <=>
             \/ ~C_SrcAllowed
             \/ C_OptGiven /\ ~C_OptIsInteger
             \/ C_OptGiven /\ C_OptIsInteger /\ ~C_OptInRange
       /\ C_EnergyResult

\* A lammps call that returned step 1 of final_energy.
C7_Witness ==
    /\ EnergyDone
    /\ call.sim.method = "lammps"
    /\ call.opt_step = PyInt(1)
    /\ ret = Returned(PyFloat(-2))

----------------------------------------------------------------------------
(* get_bounding_box: properties over BoxSpec *)

BoxDone == call.fn = "get_bounding_box" /\ ret # NoRet

\* The 8 corners of the box: the sums of the subsets of its edge vectors.
C_EdgeSum(S) ==
    [i \in 1..3 |->
        NumAdd(NumAdd(IF 1 \in S THEN call.box[i][1] ELSE Num(0),
                      IF 2 \in S THEN call.box[i][2] ELSE Num(0)),
               IF 3 \in S THEN call.box[i][3] ELSE Num(0))]

C_Corners == {C_EdgeSum(S) : S \in SUBSET (1..3)}

\* The coordinates of a corner in units of the basis vectors.
C_InBasis(c) == MatVec(Inverse(call.bound_vecs), c)

C_Lo(i) == ret.val.bound_box_origin_bv[i]
C_Hi(i) == ret.val.bound_box_origin_bv[i] + ret.val.bound_box_bv[i]

\* lo <= x <= hi
C_Within(x, lo, hi) == ~NumLess(x, Num(lo)) /\ ~NumLess(Num(hi), x)

\* lo - tol < x < hi + tol
C_WithinTol(x, lo, hi) ==
    /\ NumLess(Tiny(lo, -TolUnits), x)
    /\ NumLess(x, Tiny(hi, TolUnits))

\* x is not 0 but nearer to 0 than tol
C_NearZero(x) ==
    /\ x # Num(0)
    /\ x[1] = Rat(0)
    /\ RatLess(Rat(-TolUnits), x[2]) /\ RatLess(x[2], Rat(TolUnits))

\* The box returned is made of integer multiples of the basis vectors.
C_IntegerMultiples ==
    /\ \A i \in 1..3, j \in 1..3 :
          ret.val.bound_box[i][j] =
             Num(ret.val.bound_box_bv[j] * call.bound_vecs[i][j])
    /\ \A i \in 1..3 :
          ret.val.bound_box_origin[i] =
             Num(call.bound_vecs[i][1] * C_Lo(1)
                 + call.bound_vecs[i][2] * C_Lo(2)
                 + call.bound_vecs[i][3] * C_Lo(3))
    /\ \A i \in 1..3 : ret.val.bound_box_bv[i] >= 0

C_TwoCube ==
    <<<<Num(2), Num(0), Num(0)>>,
      <<Num(0), Num(2), Num(0)>>,
      <<Num(0), Num(0), Num(2)>>>>

\* For the box 2*I in the identity basis the box returned is the input and
\* its origin is 0.
C_Example ==
    (call.box = C_TwoCube /\ call.bound_vecs = Identity3) =>
       /\ ret.state = "returned"
       /\ ret.val.bound_box = C_TwoCube
       /\ ret.val.bound_box_origin = ZeroVec
       /\ ret.val.bound_box_origin_bv = <<0, 0, 0>>
       /\ ret.val.bound_box_bv = <<2, 2, 2>>

\* C10 as stated: the box returned is made of integer multiples of the
\* basis vectors and, in basis units and for each axis, holds the
\* coordinate of every one of the 8 corners between its origin and its
\* origin plus its extent; the box 2*I in the identity basis gives itself.
C10_BoundingBoxIsSuperset ==
    BoxDone =>
       /\ ret.state = "returned" =>
             /\ C_IntegerMultiples
             /\ \A c \in C_Corners : \A i \in 1..3 :
                   C_Within(C_InBasis(c)[i], C_Lo(i), C_Hi(i))
       /\ C_Example

\* C10: for a basis that has an inverse, the box returned is made of
\* integer multiples of the basis vectors and, in basis units and for each
\* axis, holds the coordinate of every one of the 8 corners between its
\* origin and its origin plus its extent up to the tolerance 1e-12; a
\* corner lies outside only along an axis on which the least or the
\* greatest corner coordinate is nearer to 0 than 1e-12 without being 0
\* (it is snapped to 0 before the floor and the ceiling are taken); the
\* box 2*I in the identity basis gives itself.  A matrix without an
\* inverse makes the call raise.
C10_BoundingBoxIsSupersetWithinTol ==
    BoxDone =>
       /\ ret.state = "raised" <=> Det3(call.bound_vecs) = 0
       /\ ret.state = "returned" =>
             /\ C_IntegerMultiples
             /\ \A c \in C_Corners : \A i \in 1..3 :
                   /\ C_WithinTol(C_InBasis(c)[i], C_Lo(i), C_Hi(i))
                   /\ ~C_Within(C_InBasis(c)[i], C_Lo(i), C_Hi(i)) =>
                         \E e \in C_Corners : C_NearZero(C_InBasis(e)[i])
       /\ C_Example

\* The box 2*I in the identity basis, with its result.
C10_Witness ==
    /\ BoxDone
    /\ call.box = C_TwoCube /\ call.bound_vecs = Identity3
    /\ ret.state = "returned" /\ ret.val.bound_box = C_TwoCube

----------------------------------------------------------------------------
(* The vals of the batch: properties over PipeSpec *)

C_Ids == {VarIds[k] : k \in 1..Len(VarIds)}

\* A compute has written the vals of id.
C_Written(id) == vars[id] # EmptyVals

C_IsSequenceOfBatch(v) == v.kind = "list" /\ Len(v.items) = Len(sims)

----------------------------------------------------------------------------
(* master_gamma: properties over FitSpec *)

MasterDone == phase = "done"
MasterFailed == phase = "error in master_gamma"

C_GbEnergyOf(s) == vars["gb_energy"].items[s]

\* The cell <<row, column>> that simulation s maps to.
C_CellOf(s) == <<vars["row_idx"].items[s][1], vars["col_idx"].items[s][1]>>

C_HasCell(s) ==
    /\ C_GbEnergyOf(s) # None
    /\ vars["row_idx"].items[s] # None /\ vars["col_idx"].items[s] # None

\* The cells of the grid, as the first simulation with a GB energy gives
\* its shape.
C_Cells ==
    LET withEn == {s \in 1..Len(sims) : C_GbEnergyOf(s) # None}
        shp == vars["grid_shape"].items[CHOOSE s \in withEn :
                                           \A t \in withEn : s <= t]
    IN  {<<r, c>> : r \in 0..(shp[1] - 1), c \in 0..(shp[2] - 1)}

C_SimsOf(cell) == {s \in 1..Len(sims) : C_HasCell(s) /\ C_CellOf(s) = cell}

\* s is the first simulation with a GB energy that maps to its cell.
C_IsFirstOfCell(s) ==
    C_HasCell(s) /\ \A t \in C_SimsOf(C_CellOf(s)) : s <= t

\* The vacuum values at which the cell has an energy.
C_VacsOf(cell) == {sims[s].boundary_vac : s \in C_SimsOf(cell)}

\* The batch is one master_gamma is made for: some simulation has a GB
\* energy, and each that has one is at a point of the grid.
C_BatchForMaster ==
    /\ \E s \in 1..Len(sims) : C_GbEnergyOf(s) # None
    /\ \A s \in 1..Len(sims) : C_GbEnergyOf(s) # None => C_HasCell(s)

\* What the flat results hold at s when they hold the fit of cell.
C_HoldsFitOf(s, cell) ==
    LET mg == vars["master_gamma"]
    IN  /\ mg.E_min_flat[s] = mg.E_min[cell[1] + 1][cell[2] + 1]
        /\ mg.vac_min_flat[s] = mg.vac_min[cell[1] + 1][cell[2] + 1]
        /\ mg.E_min_flat[s] # NaN /\ mg.vac_min_flat[s] # NaN
        /\ mg.fits[s] # NaN
        /\ mg.fits[s][2] = "coeffs"
        /\ mg.fits[s][3] = mg.E_min_flat[s][3]

C_HoldsNaN(s) ==
    LET mg == vars["master_gamma"]
    IN  mg.E_min_flat[s] = NaN /\ mg.vac_min_flat[s] = NaN /\ mg.fits[s] = NaN

C_FlatResults ==
    \A s \in 1..Len(sims) :
       IF C_IsFirstOfCell(s) /\ Cardinality(C_VacsOf(C_CellOf(s))) >= 3
       THEN C_HoldsFitOf(s, C_CellOf(s))
       ELSE C_HoldsNaN(s)

\* C11: master_gamma completes on every batch, those with a cell that no
\* simulation maps to included, and then the flat results at s hold the
\* fit of cell c exactly when s is the first simulation with a GB energy
\* that maps to c and c has at least three finite points; everywhere else
\* they hold NaN.
C11_FlatResultsAtFirstSims ==
    /\ (MasterFailed /\ C_BatchForMaster) => FALSE
    /\ MasterDone => C_FlatResults

\* The same for the batches in which every cell has a simulation.
C11_FlatResultsWhenAllCellsMapped ==
    ((MasterFailed /\ C_BatchForMaster) \/ MasterDone) =>
       ((\A cell \in C_Cells : C_SimsOf(cell) # {}) =>
           MasterDone /\ C_FlatResults)

\* A cell was fitted, and its first simulation holds the fit.
C11_Witness ==
    /\ MasterDone
    /\ \A cell \in C_Cells : C_SimsOf(cell) # {}
    /\ \E s \in 1..Len(sims) :
          /\ C_IsFirstOfCell(s) /\ Cardinality(C_VacsOf(C_CellOf(s))) >= 3
          /\ C_HoldsFitOf(s, C_CellOf(s))

\* A cell was fitted, no simulation maps to the other cell, and the first
\* simulation of the fitted cell holds NaN.
C11_FitLost ==
    /\ MasterDone
    /\ \E cell \in C_Cells : C_SimsOf(cell) = {}
    /\ \E s \in 1..Len(sims) :
          /\ C_IsFirstOfCell(s) /\ Cardinality(C_VacsOf(C_CellOf(s))) >= 3
          /\ C_HoldsNaN(s)

----------------------------------------------------------------------------
\* Properties of the vals a resolved definition carries

\* The step is a get_depends call (no value was appended).
C_IsResolveStep == nwrites' = nwrites /\ resolverVars' # resolverVars

\* The step appended a value to the vals of one held list.
C_IsAppendStep == nwrites' = nwrites + 1

\* The vals of the definitions of a held list, in order (absent: <<>>).
C_ValsOf(held, p) ==
    [i \in 1..Len(held.out) |->
        IF HasKey(Deref(held.out[i], p), "vals")
        THEN <<Deref(held.out[i], p).vals>> ELSE <<>>]

\* C12: every definition a get_depends call with inc_val=True returns
\* carries an empty vals, whatever was appended to the results of earlier
\* calls; and appending to the vals of one call's result changes the vals of
\* no other call's result.
C12_ValsStartEmptyAndUnshared ==
    [][/\ (C_IsResolveStep /\ cur'.made /\ ~cur'.err /\ cur'.req.inc_val)
            => \A i \in 1..Len(cur'.out) :
                  C_ValsOf(cur', pv')[i] = << <<>> >>
       /\ (C_IsAppendStep /\ kept.made /\ cur.made)
            => \/ C_ValsOf(kept', pv') = C_ValsOf(kept, pv)
               \/ C_ValsOf(cur', pv') = C_ValsOf(cur, pv)]_resolverVars

\* A predefined definition handed out again still carries the value
\* appended through the earlier result.
C12_StaleVals ==
    /\ kept.made /\ kept.req.inc_val /\ ~kept.err
    /\ cur.made /\ cur.req.inc_val /\ ~cur.err
    /\ nwrites = 1
    /\ \E i \in 1..Len(cur.out), j \in 1..Len(kept.out) :
          /\ cur.out[i] = kept.out[j]
          /\ C_ValsOf(cur, pv)[i] = << <<1>> >>
          /\ C_ValsOf(kept, pv)[j] = << <<1>> >>

----------------------------------------------------------------------------
\* Properties of energy_per_atom

C_PerAtomDone == call.fn = "energy_per_atom" /\ ret # NoRet

\* The opt_step of a definition in variables, None where it has none.
C_OptStepOf(defn) == IF HasKey(defn, "opt_step") THEN defn.opt_step ELSE None

\* The places in variables of the energy definitions of a source.
C_EnergyAt(src) ==
    {j \in 1..Len(call.variables) :
        /\ call.variables[j].name = "energy"
        /\ call.variables[j].energy_src = src}

\* The place in variables of the num_atoms definition.
C_NumAtomsAt ==
    CHOOSE j \in 1..Len(call.variables) :
        call.variables[j].name = "num_atoms"

\* E / N at the simulation of the call, E taken from the definition at j.
C_PerAtomOf(j) ==
    Returned(RatNorm(call.variables[j].vals[call.sim_idx + 1],
                     call.variables[C_NumAtomsAt].vals[call.sim_idx + 1]))

\* C13: energy_per_atom for simulation index i returns E / N, N the
\* num_atoms value at i and E the value at i of the energy definition in
\* variables with the energy_src and the opt_step of the request (no
\* opt_step when the request has none), whichever other energy definitions
\* of that source stand in variables and in whichever order.
C13_PerAtomUsesRequestedEnergy ==
    C_PerAtomDone =>
        \A j \in C_EnergyAt(call.energy_src) :
            C_OptStepOf(call.variables[j]) = call.opt_step
                => ret = C_PerAtomOf(j)

\* The same for the requests that give an opt_step.
C13_PerAtomWithOptStep ==
    (C_PerAtomDone /\ call.opt_step # None) =>
        \A j \in C_EnergyAt(call.energy_src) :
            C_OptStepOf(call.variables[j]) = call.opt_step
                => ret = C_PerAtomOf(j)

\* A request without opt_step got the energy of a definition with an
\* opt_step that stands before the one without.
C13_WrongStep ==
    /\ C_PerAtomDone /\ call.opt_step = None
    /\ \E j, k \in C_EnergyAt(call.energy_src) :
          /\ j < k
          /\ C_OptStepOf(call.variables[j]) # None
          /\ C_OptStepOf(call.variables[k]) = None
          /\ ret = C_PerAtomOf(j)
          /\ ret # C_PerAtomOf(k)


\* The definitions of a list a get_depends call with inc_val=True returned.
C_HandedOut(held) == held.made /\ ~held.err /\ held.req.inc_val

\* C14: a get_depends call with inc_val=False leaves every definition that
\* an earlier call with inc_val=True returned as it was: no vals key is
\* removed from it and no vals changes.
C14_IncValFalseLeavesHandedOut ==
    [][(C_IsResolveStep /\ cur'.made /\ ~cur'.req.inc_val)
        => /\ C_HandedOut(kept)
                => DerefList(kept.out, pv') = DerefList(kept.out, pv)
           /\ C_HandedOut(cur)
                => DerefList(cur.out, pv') = DerefList(cur.out, pv)]_resolverVars

\* A list handed out with vals, and written once, holds a definition from
\* which the inc_val=False call of atoms_gb_dist_change removed the vals.
C14_ValsRemoved ==
    /\ C_HandedOut(kept) /\ nwrites = 1
    /\ cur.made /\ ~cur.req.inc_val
    /\ cur.req.name = "atoms_gb_dist_change"
    /\ \E i \in 1..Len(kept.out) : C_ValsOf(kept, pv)[i] = <<>>
    /\ \E i \in 1..Len(kept.out) : C_ValsOf(kept, pv)[i] = << <<1>> >>

============================================================================
